---- MODULE Spec2Model ----
(***************************************************************************)
(* World Weather Online weather dashboard (rust/src/main.rs).              *)
(*                                                                         *)
(* Text whose characters the code inspects (weather descriptions, the      *)
(* day-count argument, the num_of_days query value) is a sequence of       *)
(* one-character strings; text that is only stored, concatenated and       *)
(* printed is a TLA+ string.  The emoji that get_icon returns are written  *)
(* as ASCII names.                                                         *)
(***************************************************************************)
EXTENDS Integers, Sequences, FiniteSets, TLC

VARIABLES
    \* ---- get_icon called on its own (IconSpec) ----
    description,    \* the argument of get_icon
    icon,           \* its result, NoIcon before the call
    \* ---- one run of the process (Spec) ----
    pc,             \* program position
    args,           \* env::args(): args[1] is the program name
    env_key,        \* env::var("WWO_API_KEY") as an Option
    location,       \* main: location
    days,           \* main: days (u8)
    api_key,        \* main: api_key
    requests,       \* the HTTP requests sent, in order
    response,       \* fetch_weather: response, an Option
    deserialized,   \* whether response.json() has been called
    result,         \* what fetch_weather returned to main, an Option
    location_name,  \* main: location_name
    stdout,         \* lines printed with println!
    stderr,         \* lines printed with eprintln! (and the panic message)
    exit_code,      \* the process's exit code, Running until it ends
    panic_site      \* the index expression that panicked, NoPanic if none

iconVars == <<description, icon>>
mainVars == <<pc, args, env_key, location, days, api_key, requests, response,
              deserialized, result, location_name, stdout, stderr, exit_code,
              panic_site>>
vars == <<description, icon, pc, args, env_key, location, days, api_key,
          requests, response, deserialized, result, location_name, stdout,
          stderr, exit_code, panic_site>>

\* ------------------------------------------------------------------ bounds
\* Pieces concatenated into a description given to get_icon.
MaxPieces == 2
\* Forecast days in a response body.
MaxDays == 2

\* ----------------------------------------------------------------- Option
None == [some |-> FALSE]
Some(v) == [some |-> TRUE, value |-> v]

\* ------------------------------------------------------------------- text
UpperAlpha == <<"A","B","C","D","E","F","G","H","I","J","K","L","M",
                "N","O","P","Q","R","S","T","U","V","W","X","Y","Z">>
LowerAlpha == <<"a","b","c","d","e","f","g","h","i","j","k","l","m",
                "n","o","p","q","r","s","t","u","v","w","x","y","z">>

\* char::to_lowercase on the ASCII range: a capital maps to its small letter,
\* every other character to itself.
LowerChar(c) ==
    IF \E k \in 1..Len(UpperAlpha) : UpperAlpha[k] = c
    THEN LowerAlpha[CHOOSE k \in 1..Len(UpperAlpha) : UpperAlpha[k] = c]
    ELSE c

\* str::to_lowercase
to_lowercase(s) == [i \in 1..Len(s) |-> LowerChar(s[i])]

\* str::contains(&str): needle occurs in haystack as a contiguous run
Contains(haystack, needle) ==
    \E i \in 0..(Len(haystack) - Len(needle)) :
        SubSeq(haystack, i + 1, i + Len(needle)) = needle

KwSunny        == <<"s","u","n","n","y">>
KwClear        == <<"c","l","e","a","r">>
KwPartlyCloudy == <<"p","a","r","t","l","y"," ","c","l","o","u","d","y">>
KwCloudy       == <<"c","l","o","u","d","y">>
KwOvercast     == <<"o","v","e","r","c","a","s","t">>
KwMist         == <<"m","i","s","t">>
KwFog          == <<"f","o","g">>
KwRain         == <<"r","a","i","n">>
KwDrizzle      == <<"d","r","i","z","z","l","e">>
KwSnow         == <<"s","n","o","w">>
KwSleet        == <<"s","l","e","e","t">>
KwThunder      == <<"t","h","u","n","d","e","r">>
KwBlizzard     == <<"b","l","i","z","z","a","r","d">>

\* The symbols get_icon returns.
IconSun           == "SUN"                \* U+2600
IconMoon          == "CRESCENT_MOON"      \* U+1F319
IconPartlyCloudy  == "SUN_BEHIND_CLOUD"   \* U+26C5
IconCloud         == "CLOUD"              \* U+2601
IconFog           == "FOG"                \* U+1F32B
IconRain          == "CLOUD_WITH_RAIN"    \* U+1F327
IconDrizzle       == "SUN_BEHIND_RAIN_CLOUD" \* U+1F326
IconSnowflake     == "SNOWFLAKE"          \* U+2744
IconCloudSnow     == "CLOUD_WITH_SNOW"    \* U+1F328
IconThunder       == "CLOUD_WITH_LIGHTNING_AND_RAIN" \* U+26C8
IconThermometer   == "THERMOMETER"        \* U+1F321
NoIcon            == "NO_ICON_YET"

\* get_icon with the cloudy test moved ahead of the partly-cloudy test.
get_icon_cloudy_first(d) ==
    LET desc == to_lowercase(d) IN
    IF      Contains(desc, KwSunny)        THEN IconSun
    ELSE IF Contains(desc, KwClear)        THEN IconMoon
    ELSE IF Contains(desc, KwCloudy)       THEN IconCloud
    ELSE IF Contains(desc, KwPartlyCloudy) THEN IconPartlyCloudy
    ELSE IF Contains(desc, KwOvercast)     THEN IconCloud
    ELSE IF Contains(desc, KwMist)         THEN IconFog
    ELSE IF Contains(desc, KwFog)          THEN IconFog
    ELSE IF Contains(desc, KwRain)         THEN IconRain
    ELSE IF Contains(desc, KwDrizzle)      THEN IconDrizzle
    ELSE IF Contains(desc, KwSnow)         THEN IconSnowflake
    ELSE IF Contains(desc, KwSleet)        THEN IconCloudSnow
    ELSE IF Contains(desc, KwThunder)      THEN IconThunder
    ELSE IF Contains(desc, KwBlizzard)     THEN IconCloudSnow
    ELSE IconThermometer

\* get_icon matching the description as given, without lower-casing it.
get_icon_case_sensitive(d) ==
    LET desc == d IN
    IF      Contains(desc, KwSunny)        THEN IconSun
    ELSE IF Contains(desc, KwClear)        THEN IconMoon
    ELSE IF Contains(desc, KwPartlyCloudy) THEN IconPartlyCloudy
    ELSE IF Contains(desc, KwCloudy)       THEN IconCloud
    ELSE IF Contains(desc, KwOvercast)     THEN IconCloud
    ELSE IF Contains(desc, KwMist)         THEN IconFog
    ELSE IF Contains(desc, KwFog)          THEN IconFog
    ELSE IF Contains(desc, KwRain)         THEN IconRain
    ELSE IF Contains(desc, KwDrizzle)      THEN IconDrizzle
    ELSE IF Contains(desc, KwSnow)         THEN IconSnowflake
    ELSE IF Contains(desc, KwSleet)        THEN IconCloudSnow
    ELSE IF Contains(desc, KwThunder)      THEN IconThunder
    ELSE IF Contains(desc, KwBlizzard)     THEN IconCloudSnow
    ELSE IconThermometer

get_icon(d) ==
    LET desc == to_lowercase(d) IN
    IF      Contains(desc, KwSunny)        THEN IconSun
    ELSE IF Contains(desc, KwClear)        THEN IconMoon
    ELSE IF Contains(desc, KwPartlyCloudy) THEN IconPartlyCloudy
    ELSE IF Contains(desc, KwCloudy)       THEN IconCloud
    ELSE IF Contains(desc, KwOvercast)     THEN IconCloud
    ELSE IF Contains(desc, KwMist)         THEN IconFog
    ELSE IF Contains(desc, KwFog)          THEN IconFog
    ELSE IF Contains(desc, KwRain)         THEN IconRain
    ELSE IF Contains(desc, KwDrizzle)      THEN IconDrizzle
    ELSE IF Contains(desc, KwSnow)         THEN IconSnowflake
    ELSE IF Contains(desc, KwSleet)        THEN IconCloudSnow
    ELSE IF Contains(desc, KwThunder)      THEN IconThunder
    ELSE IF Contains(desc, KwBlizzard)     THEN IconCloudSnow
    ELSE IconThermometer

\* ------------------------------------------------ get_icon on its own
\* The pieces a description is concatenated from: every keyword in some
\* letter case, halves of keywords, and text that holds no keyword.
PcSunny              == <<"S","u","n","n","y">>
PcClear              == <<"C","L","E","A","R">>
PcPartlyCloudy       == <<"P","a","r","t","l","y"," ","c","l","o","u","d","y">>
PcPartlyCloudyUpper  == <<"P","A","R","T","L","Y"," ","C","L","O","U","D","Y">>
PcCloudy             == <<"C","l","o","u","d","y">>
PcOvercast           == <<"O","v","e","r","c","a","s","t">>
PcMist               == <<"M","i","s","t">>
PcFog                == <<"F","o","g">>
PcRain               == <<"L","i","g","h","t"," ","r","a","i","n">>
PcDrizzle            == <<"D","r","i","z","z","l","e">>
PcSnow               == <<"s","n","o","w">>
PcSleet              == <<"S","l","e","e","t">>
PcThunder            == <<"T","H","U","N","D","E","R","Y">>
PcBlizzard           == <<"B","l","i","z","z","a","r","d">>
PcHaze               == <<"H","a","z","e">>
PcSpace              == <<" ">>
PcPartly             == <<"p","a","r","t","l","y">>
PcSpaceCloudy        == <<" ","c","l","o","u","d","y">>
PcSun                == <<"S","u","n">>
PcNy                 == <<"N","Y">>
PcAnd                == <<" ","a","n","d"," ">>
Pieces ==
    {PcSunny, PcClear, PcPartlyCloudy, PcPartlyCloudyUpper,
     PcCloudy, PcOvercast, PcMist, PcFog,
     PcRain, PcDrizzle, PcSnow, PcSleet,
     PcThunder, PcBlizzard, PcHaze, PcSpace,
     PcPartly, PcSpaceCloudy, PcSun, PcNy,
     PcAnd}

RECURSIVE Concat(_)
Concat(ps) == IF ps = <<>> THEN <<>> ELSE Head(ps) \o Concat(Tail(ps))

Descriptions ==
    {Concat(ps) : ps \in UNION {[1..n -> Pieces] : n \in 0..MaxPieces}}

\* Values of the variables of the part of the model that is not running.
MainIdle ==
    /\ pc = "idle"
    /\ args = <<>>
    /\ env_key = None
    /\ location = ""
    /\ days = 0
    /\ api_key = ""
    /\ requests = <<>>
    /\ response = None
    /\ deserialized = FALSE
    /\ result = None
    /\ location_name = ""
    /\ stdout = <<>>
    /\ stderr = <<>>
    /\ exit_code = None
    /\ panic_site = "none"

IconIdle ==
    /\ description = <<>>
    /\ icon = NoIcon

IconInit ==
    /\ description \in Descriptions
    /\ icon = NoIcon
    /\ MainIdle

\* A call get_icon(description).
IconCall ==
    /\ pc = "idle"
    /\ icon = NoIcon
    /\ icon' = get_icon(description)
    /\ UNCHANGED <<description, mainVars>>

IconNext == IconCall

IconSpec == IconInit /\ [][IconNext]_vars

\* ------------------------------------------------------- the process's inputs
BASE_URL == "https://api.worldweatheronline.com/premium/v1/weather.ashx"
SentinelKey == "your_api_key_here"
DefaultLocation == "London"
DefaultDays == 5
U8Max == 255

Digits == <<"0","1","2","3","4","5","6","7","8","9">>
IsDigit(c) == \E k \in 1..Len(Digits) : Digits[k] = c
DigitValue(c) == (CHOOSE k \in 1..Len(Digits) : Digits[k] = c) - 1

\* The digit loop of u8::from_str: a character that is no digit, or a value
\* beyond u8::MAX, is an error.
RECURSIVE ParseDigits(_, _)
ParseDigits(s, acc) ==
    IF s = <<>> THEN Some(acc)
    ELSE IF ~IsDigit(Head(s)) THEN None
    ELSE LET v == acc * 10 + DigitValue(Head(s)) IN
         IF v > U8Max THEN None ELSE ParseDigits(Tail(s), v)

\* str::parse::<u8>().ok(): the empty string and a lone sign are errors, one
\* leading "+" is skipped, "-" is no sign of an unsigned type.
parse_u8(s) ==
    IF s = <<>> THEN None
    ELSE IF Len(s) = 1 /\ Head(s) \in {"+", "-"} THEN None
    ELSE IF Head(s) = "+" THEN ParseDigits(Tail(s), 0)
    ELSE ParseDigits(s, 0)

\* u8::to_string: decimal, no sign, no leading zero
RECURSIVE to_string(_)
to_string(n) ==
    IF n < 10 THEN <<Digits[n + 1]>>
    ELSE to_string(n \div 10) \o <<Digits[(n % 10) + 1]>>

ProgramName == "wwo"
LocationArgs == {"Paris"}
DayArgs == {<<"3">>, <<"0">>, <<"1","4">>, <<"1","5">>, <<"2","5","5">>,
            <<"2","5","6">>, <<"a","b","c">>, <<"+","7">>}
ArgVectors ==
    {<<ProgramName>>}
    \cup {<<ProgramName, l>> : l \in LocationArgs}
    \cup {<<ProgramName, l, d>> : l \in LocationArgs, d \in DayArgs}

\* env::var("WWO_API_KEY"): unset, set to the placeholder, set to a key
EnvKeys == {None, Some(SentinelKey), Some("k3y")}

\* --------------------------------------------------- the response's JSON body
\* A JSON object is a record whose domain is the keys the document holds.
JDesc(v) == [value |-> v]

JCurrent(ds) ==
    [temp_C |-> "20", temp_F |-> "68", FeelsLikeC |-> "19", humidity |-> "50",
     windspeedMiles |-> "10", winddir16Point |-> "NW", uvIndex |-> "3",
     visibility |-> "10", weatherDesc |-> ds]

JCurrentSeqs ==
    {<<>>, <<JCurrent(<<>>)>>, <<JCurrent(<<JDesc(PcSunny)>>)>>,
     <<JCurrent(<<JDesc(PcPartlyCloudy), JDesc(PcRain)>>)>>}

JForecastDescs == {<<>>, <<JDesc(PcSunny)>>}

JHourlySet ==
    {[weatherDesc |-> ds] : ds \in JForecastDescs}
    \cup {[weatherDesc |-> ds, chanceofrain |-> "80"] : ds \in JForecastDescs}

\* hourly arrays: empty, one entry, and two entries that differ in chanceofrain
JHourlySeqs ==
    {<<>>} \cup {<<h>> : h \in JHourlySet}
    \cup {<<[weatherDesc |-> <<JDesc(PcSunny)>>],
            [weatherDesc |-> <<JDesc(PcRain)>>, chanceofrain |-> "80"]>>}

JDaySet ==
    {[date |-> "2024-01-01", maxtempC |-> "22", mintempC |-> "15", hourly |-> hs] :
        hs \in JHourlySeqs}

JWeatherSeqs == UNION {[1..n -> JDaySet] : n \in 0..MaxDays}

JAreaSet ==
    {[areaName |-> an, country |-> co] :
        an \in {<<>>, <<JDesc("Paris")>>}, co \in {<<>>, <<JDesc("France")>>}}

JAreaSeqs == {<<>>} \cup {<<a>> : a \in JAreaSet}

JDataSet ==
    {[current_condition |-> cc, weather |-> w] :
        cc \in JCurrentSeqs, w \in JWeatherSeqs}
    \cup {[current_condition |-> cc, weather |-> w, nearest_area |-> na] :
        cc \in JCurrentSeqs, w \in JWeatherSeqs, na \in JAreaSeqs}

\* The bodies a response can carry: text that is no JSON, the API's error
\* document, a document without the data envelope, and weather documents.
Bodies ==
    {[is_json |-> FALSE]}
    \cup {[is_json |-> TRUE, doc |-> [data |-> [error |-> <<[msg |-> "no match"]>>]]]}
    \cup {[is_json |-> TRUE, doc |-> [current_condition |-> <<>>, weather |-> <<>>]]}
    \cup {[is_json |-> TRUE, doc |-> [data |-> d]] : d \in JDataSet}

Statuses == {200, 299, 300, 404}
Responses == [status : Statuses, body : Bodies]
TransportErrors == {"connect", "timeout"}

\* ------------------------------------------- serde: WeatherResponse and below
de_Description(j) == [value |-> j.value]

de_Descriptions(js) == [i \in 1..Len(js) |-> de_Description(js[i])]

de_CurrentCondition(j) ==
    [temp_c |-> j.temp_C, temp_f |-> j.temp_F, feels_like_c |-> j.FeelsLikeC,
     humidity |-> j.humidity, windspeed_miles |-> j.windspeedMiles,
     winddir |-> j.winddir16Point, uv_index |-> j.uvIndex,
     visibility |-> j.visibility,
     weather_desc |-> de_Descriptions(j.weatherDesc)]

\* chanceofrain: Option<String>, None when the key is missing
de_HourlyData(j) ==
    [weather_desc |-> de_Descriptions(j.weatherDesc),
     chanceofrain |-> IF "chanceofrain" \in DOMAIN j THEN Some(j.chanceofrain)
                      ELSE None]

de_DayForecast(j) ==
    [date |-> j.date, max_temp_c |-> j.maxtempC, min_temp_c |-> j.mintempC,
     hourly |-> [i \in 1..Len(j.hourly) |-> de_HourlyData(j.hourly[i])]]

de_NearestArea(j) ==
    [area_name |-> de_Descriptions(j.areaName),
     country |-> de_Descriptions(j.country)]

\* nearest_area: Option<Vec<NearestArea>>, None when the key is missing
de_WeatherData(j) ==
    [current_condition |->
        [i \in 1..Len(j.current_condition) |->
            de_CurrentCondition(j.current_condition[i])],
     weather |-> [i \in 1..Len(j.weather) |-> de_DayForecast(j.weather[i])],
     nearest_area |->
        IF "nearest_area" \in DOMAIN j
        THEN Some([i \in 1..Len(j.nearest_area) |->
                      de_NearestArea(j.nearest_area[i])])
        ELSE None]

Ok(d) == [ok |-> TRUE, data |-> d]
Err(e) == [ok |-> FALSE, err |-> e]

\* response.json::<WeatherResponse>() followed by .data: an error unless the
\* body is JSON, has the data envelope, and data has its required fields.
json_WeatherResponse(body) ==
    IF ~body.is_json THEN Err("decode")
    ELSE IF "data" \notin DOMAIN body.doc THEN Err("decode")
    ELSE IF ~({"current_condition", "weather"} \subseteq DOMAIN body.doc.data)
         THEN Err("decode")
    ELSE Ok(de_WeatherData(body.doc.data))

\* is_success that takes every status below 400 for a success.
is_success_below_400(status) == status < 400

\* StatusCode::is_success
is_success(status) == 200 <= status /\ status < 300

\* The placeholder test with the comparison gone.
is_placeholder_never(key) == FALSE

\* api_key == "your_api_key_here"
is_placeholder(key) == key = SentinelKey

\* ------------------------------------------------------------ console output
RECURSIVE PadLeft(_, _)
\* "{:>w}": right-aligned in a field of w characters, never truncated
PadLeft(s, w) == IF Len(s) >= w THEN s ELSE PadLeft(" " \o s, w)

RECURSIVE PadRight(_, _)
\* "{:<w}": left-aligned in a field of w characters, never truncated
PadRight(s, w) == IF Len(s) >= w THEN s ELSE PadRight(s \o " ", w)

FetchingLine(loc) == [line |-> "fetching", location |-> loc]
Rule50 == [line |-> "rule50"]
Rule65 == [line |-> "rule65"]
AttributionLine == [line |-> "attribution"]

\* The ten lines display_current prints.
CurrentLines(current, name) ==
    LET desc == current.weather_desc[1].value
        icn  == get_icon(desc)
    IN  << Rule50,
           [line |-> "right_now", location_name |-> name],
           Rule50,
           [line |-> "conditions", icon |-> icn, desc |-> desc],
           [line |-> "temperature", temp_c |-> current.temp_c,
            temp_f |-> current.temp_f, feels_like_c |-> current.feels_like_c],
           [line |-> "humidity", humidity |-> current.humidity \o "%"],
           [line |-> "wind", speed |-> current.windspeed_miles,
            dir |-> current.winddir],
           [line |-> "visibility", km |-> current.visibility],
           [line |-> "uv_index", uv |-> current.uv_index],
           Rule50 >>

ForecastHead ==
    << [line |-> "forecast_title"],
       [line |-> "forecast_header",
        cells |-> <<PadRight("Date", 14), PadRight("Conditions", 25),
                    PadLeft("High", 7), PadLeft("Low", 7), PadLeft("Rain%", 7)>>],
       Rule65 >>

\* The row display_forecast prints for one day.  cond is the pair that
\* format!("{} {}", icon, desc) joins.
ForecastRow(day) ==
    LET desc == day.hourly[1].weather_desc[1].value
        icn  == get_icon(desc)
        cor  == day.hourly[1].chanceofrain
        rain == IF cor.some THEN cor.value ELSE "N/A"
    IN  [line |-> "forecast_row",
         date |-> PadRight(day.date, 14),
         cond |-> <<icn, desc>>,
         high |-> PadLeft(day.max_temp_c \o "°C", 7),
         low  |-> PadLeft(day.min_temp_c \o "°C", 7),
         rain |-> PadLeft(rain \o "%", 7)]

\* Which index expression of the loop body panics on this day, if any.
DayPanic(day) ==
    IF day.hourly = <<>> THEN "hourly"
    ELSE IF day.hourly[1].weather_desc = <<>> THEN "hourly_desc"
    ELSE "none"

\* The first day of the loop whose body panics, 0 if none does.
FirstPanicDay(ws) ==
    IF \E i \in 1..Len(ws) : DayPanic(ws[i]) # "none"
    THEN CHOOSE i \in 1..Len(ws) :
            /\ DayPanic(ws[i]) # "none"
            /\ \A k \in 1..(i - 1) : DayPanic(ws[k]) = "none"
    ELSE 0

\* ------------------------------------------------------------ process exits
ExitFailure == 1
ExitSuccess == 0
\* A panic ends the process with 101 when it unwinds and by SIGABRT (134 to
\* a shell) when the build sets panic = "abort".
PanicExitCodes == {101, 134}

\* process::exit(code)
Exit(code) ==
    /\ pc' = "exited"
    /\ exit_code' = Some(code)

\* An index out of bounds at `site`.
Panic(site) ==
    /\ pc' = "exited"
    /\ panic_site' = site
    /\ stderr' = Append(stderr, [line |-> "panic", site |-> site])
    /\ \E c \in PanicExitCodes : exit_code' = Some(c)

\* ---------------------------------------------------------------------- main
Init ==
    /\ pc = "main"
    /\ args \in ArgVectors
    /\ env_key \in EnvKeys
    /\ location = ""
    /\ days = 0
    /\ api_key = ""
    /\ requests = <<>>
    /\ response = None
    /\ deserialized = FALSE
    /\ result = None
    /\ location_name = ""
    /\ stdout = <<>>
    /\ stderr = <<>>
    /\ exit_code = None
    /\ panic_site = "none"
    /\ IconIdle

\* Vec::get(i) with Rust's 0-based index
ArgGet(i) == IF i + 1 <= Len(args) THEN Some(args[i + 1]) ELSE None

\* main, up to the call of fetch_weather
MainResolve ==
    /\ pc = "main"
    /\ LET loc == IF ArgGet(1).some THEN ArgGet(1).value ELSE DefaultLocation
           parsed == IF ArgGet(2).some THEN parse_u8(ArgGet(2).value) ELSE None
       IN /\ location' = loc
          /\ days' = IF parsed.some THEN parsed.value ELSE DefaultDays
          /\ stdout' = Append(stdout, FetchingLine(loc))
    /\ api_key' = IF env_key.some THEN env_key.value ELSE SentinelKey
    /\ pc' = "fetch_weather"
    /\ UNCHANGED <<args, env_key, requests, response, deserialized, result,
                   location_name, stderr, exit_code, panic_site, iconVars>>

\* fetch_weather: the placeholder-key check
FetchKeyCheck ==
    /\ pc = "fetch_weather"
    /\ IF is_placeholder(api_key)
       THEN /\ stderr' = stderr \o <<[line |-> "set_your_key"],
                                     [line |-> "export_hint"],
                                     [line |-> "get_a_key"]>>
            /\ Exit(ExitFailure)
       ELSE /\ pc' = "build"
            /\ UNCHANGED <<stderr, exit_code>>
    /\ UNCHANGED <<args, env_key, location, days, api_key, requests, response,
                   deserialized, result, location_name, stdout, panic_site,
                   iconVars>>

\* fetch_weather: Client::builder()...build()?
BuildClient ==
    /\ pc = "build"
    /\ \E built \in BOOLEAN :
        IF built
        THEN /\ pc' = "send"
             /\ UNCHANGED result
        ELSE /\ pc' = "match"
             /\ result' = Some(Err("builder"))
    /\ UNCHANGED <<args, env_key, location, days, api_key, requests, response,
                   deserialized, location_name, stdout, stderr, exit_code,
                   panic_site, iconVars>>

\* The query of the GET request.
Query ==
    [url |-> BASE_URL, key |-> api_key, q |-> location, format |-> "json",
     num_of_days |-> to_string(days), tp |-> "24", includelocation |-> "yes",
     cc |-> "yes"]

\* Send that sends the request a second time when the first attempt fails.
Send_RetryOnce ==
    /\ pc = "send"
    /\ \/ \E e \in TransportErrors :
            /\ requests' = requests \o <<Query, Query>>
            /\ result' = Some(Err(e))
            /\ pc' = "match"
            /\ UNCHANGED response
       \/ \E r \in Responses :
            /\ requests' = Append(requests, Query)
            /\ response' = Some(r)
            /\ pc' = "status"
            /\ UNCHANGED result
    /\ UNCHANGED <<args, env_key, location, days, api_key, deserialized,
                   location_name, stdout, stderr, exit_code, panic_site,
                   iconVars>>

\* fetch_weather: client.get(BASE_URL).query(..).send()?
Send ==
    /\ pc = "send"
    /\ requests' = Append(requests, Query)
    /\ \/ \E e \in TransportErrors :
            /\ result' = Some(Err(e))
            /\ pc' = "match"
            /\ UNCHANGED response
       \/ \E r \in Responses :
            /\ response' = Some(r)
            /\ pc' = "status"
            /\ UNCHANGED result
    /\ UNCHANGED <<args, env_key, location, days, api_key, deserialized,
                   location_name, stdout, stderr, exit_code, panic_site,
                   iconVars>>

\* fetch_weather: the status check
CheckStatus ==
    /\ pc = "status"
    /\ IF ~is_success(response.value.status)
       THEN /\ stderr' = Append(stderr, [line |-> "http_error",
                                         status |-> response.value.status])
            /\ Exit(ExitFailure)
       ELSE /\ pc' = "json"
            /\ UNCHANGED <<stderr, exit_code>>
    /\ UNCHANGED <<args, env_key, location, days, api_key, requests, response,
                   deserialized, result, location_name, stdout, panic_site,
                   iconVars>>

\* Deserialize that prints a decode error and exits instead of returning it.
Deserialize_ExitsOnError ==
    /\ pc = "json"
    /\ deserialized' = TRUE
    /\ response' = None
    /\ LET r == json_WeatherResponse(response.value.body) IN
       IF r.ok
       THEN /\ result' = Some(r)
            /\ pc' = "match"
            /\ UNCHANGED <<stderr, exit_code>>
       ELSE /\ stderr' = Append(stderr, [line |-> "error", err |-> r.err])
            /\ Exit(ExitFailure)
            /\ UNCHANGED result
    /\ UNCHANGED <<args, env_key, location, days, api_key, requests,
                   location_name, stdout, panic_site, iconVars>>

\* fetch_weather: response.json()? and the return; json() consumes response
Deserialize ==
    /\ pc = "json"
    /\ deserialized' = TRUE
    /\ result' = Some(json_WeatherResponse(response.value.body))
    /\ response' = None
    /\ pc' = "match"
    /\ UNCHANGED <<args, env_key, location, days, api_key, requests,
                   location_name, stdout, stderr, exit_code, panic_site,
                   iconVars>>

\* main: the Err arm
MainErr ==
    /\ pc = "match"
    /\ ~result.value.ok
    /\ stderr' = Append(stderr, [line |-> "error", err |-> result.value.err])
    /\ Exit(ExitFailure)
    /\ UNCHANGED <<args, env_key, location, days, api_key, requests, response,
                   deserialized, result, location_name, stdout, panic_site,
                   iconVars>>

\* LocationName whose fallback is the default location, not the one asked for.
LocationName_FallbackDefault ==
    /\ pc = "match"
    /\ result.value.ok
    /\ LET na == result.value.data.nearest_area
           first == IF na.some /\ na.value # <<>> THEN Some(na.value[1]) ELSE None
       IN  IF ~first.some
           THEN /\ location_name' = DefaultLocation
                /\ pc' = "display_current"
                /\ UNCHANGED <<stderr, exit_code, panic_site>>
           ELSE IF first.value.area_name = <<>>
           THEN /\ Panic("area_name")
                /\ UNCHANGED location_name
           ELSE IF first.value.country = <<>>
           THEN /\ Panic("country")
                /\ UNCHANGED location_name
           ELSE /\ location_name' = first.value.area_name[1].value \o ", "
                                    \o first.value.country[1].value
                /\ pc' = "display_current"
                /\ UNCHANGED <<stderr, exit_code, panic_site>>
    /\ UNCHANGED <<args, env_key, location, days, api_key, requests, response,
                   deserialized, result, stdout, iconVars>>

\* LocationName that falls back to the query location when the first area
\* has no name or no country, instead of indexing the empty sequence.
LocationName_Defensive ==
    /\ pc = "match"
    /\ result.value.ok
    /\ LET na == result.value.data.nearest_area
           first == IF na.some /\ na.value # <<>> THEN Some(na.value[1]) ELSE None
       IN  IF first.some /\ first.value.area_name # <<>>
                         /\ first.value.country # <<>>
           THEN location_name' = first.value.area_name[1].value \o ", "
                                 \o first.value.country[1].value
           ELSE location_name' = location
    /\ pc' = "display_current"
    /\ UNCHANGED <<args, env_key, location, days, api_key, requests, response,
                   deserialized, result, stdout, stderr, exit_code, panic_site,
                   iconVars>>

\* main: the Ok arm, location_name
LocationName ==
    /\ pc = "match"
    /\ result.value.ok
    /\ LET na == result.value.data.nearest_area
           first == IF na.some /\ na.value # <<>> THEN Some(na.value[1]) ELSE None
       IN  IF ~first.some
           THEN /\ location_name' = location
                /\ pc' = "display_current"
                /\ UNCHANGED <<stderr, exit_code, panic_site>>
           ELSE IF first.value.area_name = <<>>
           THEN /\ Panic("area_name")
                /\ UNCHANGED location_name
           ELSE IF first.value.country = <<>>
           THEN /\ Panic("country")
                /\ UNCHANGED location_name
           ELSE /\ location_name' = first.value.area_name[1].value \o ", "
                                    \o first.value.country[1].value
                /\ pc' = "display_current"
                /\ UNCHANGED <<stderr, exit_code, panic_site>>
    /\ UNCHANGED <<args, env_key, location, days, api_key, requests, response,
                   deserialized, result, stdout, iconVars>>

\* main: display_current(&data.current_condition[0], &location_name)
DisplayCurrent ==
    /\ pc = "display_current"
    /\ LET cc == result.value.data.current_condition IN
       IF cc = <<>>
       THEN /\ Panic("current_condition")
            /\ UNCHANGED stdout
       ELSE IF cc[1].weather_desc = <<>>
       THEN /\ Panic("current_desc")
            /\ UNCHANGED stdout
       ELSE /\ stdout' = stdout \o CurrentLines(cc[1], location_name)
            /\ pc' = "display_forecast"
            /\ UNCHANGED <<stderr, exit_code, panic_site>>
    /\ UNCHANGED <<args, env_key, location, days, api_key, requests, response,
                   deserialized, result, location_name, iconVars>>

\* main: display_forecast(&data.weather)
DisplayForecast ==
    /\ pc = "display_forecast"
    /\ LET ws   == result.value.data.weather
           bad  == FirstPanicDay(ws)
           last == IF bad = 0 THEN Len(ws) ELSE bad - 1
           rows == [i \in 1..last |-> ForecastRow(ws[i])]
       IN  IF bad = 0
           THEN /\ stdout' = stdout \o ForecastHead \o rows \o <<Rule65>>
                /\ pc' = "attribution"
                /\ UNCHANGED <<stderr, exit_code, panic_site>>
           ELSE /\ stdout' = stdout \o ForecastHead \o rows
                /\ Panic(DayPanic(ws[bad]))
    /\ UNCHANGED <<args, env_key, location, days, api_key, requests, response,
                   deserialized, result, location_name, iconVars>>

\* main: the attribution line and the return from main
Attribution ==
    /\ pc = "attribution"
    /\ stdout' = Append(stdout, AttributionLine)
    /\ Exit(ExitSuccess)
    /\ UNCHANGED <<args, env_key, location, days, api_key, requests, response,
                   deserialized, result, location_name, stderr, panic_site,
                   iconVars>>

Next ==
    \/ MainResolve
    \/ FetchKeyCheck
    \/ BuildClient
    \/ Send
    \/ CheckStatus
    \/ Deserialize
    \/ MainErr
    \/ LocationName
    \/ DisplayCurrent
    \/ DisplayForecast
    \/ Attribution

Spec == Init /\ [][Next]_vars

\* ===================================================== claims about get_icon
\* The rule list of the specification, in its stated order.
Rules ==
    << <<KwSunny, IconSun>>, <<KwClear, IconMoon>>,
       <<KwPartlyCloudy, IconPartlyCloudy>>, <<KwCloudy, IconCloud>>,
       <<KwOvercast, IconCloud>>, <<KwMist, IconFog>>, <<KwFog, IconFog>>,
       <<KwRain, IconRain>>, <<KwDrizzle, IconDrizzle>>,
       <<KwSnow, IconSnowflake>>, <<KwSleet, IconCloudSnow>>,
       <<KwThunder, IconThunder>>, <<KwBlizzard, IconCloudSnow>> >>

\* The rules whose keyword is a substring of the lower-cased description.
Matching(d) ==
    LET low == to_lowercase(d) IN
    {i \in 1..Len(Rules) : Contains(low, Rules[i][1])}

\* Rule i is the first rule, in the order of Rules, whose keyword occurs in low.
FirstMatchIs(low, i) ==
    /\ Contains(low, Rules[i][1])
    /\ \A k \in 1..(i - 1) : ~Contains(low, Rules[k][1])

NoRuleMatches(low) == \A i \in 1..Len(Rules) : ~Contains(low, Rules[i][1])

HasPartlyCloudy(d) == Contains(to_lowercase(d), KwPartlyCloudy)

\* C2, as stated: every description that contains "partly cloudy", in any
\* letter case and whatever else it contains, gets the partly-cloudy symbol.
C2_PartlyCloudyAlways ==
    (icon # NoIcon /\ HasPartlyCloudy(description))
        => icon = IconPartlyCloudy

\* C2, amended: a description that contains "partly cloudy" (in any ASCII
\* letter case) never gets the plain-cloudy symbol; it gets the sunny symbol
\* if it also contains "sunny", else the clear symbol if it also contains
\* "clear", and the partly-cloudy symbol in every other case, whatever later
\* keywords it contains.
C2_PartlyCloudyUnlessSunnyOrClear ==
    (icon # NoIcon /\ HasPartlyCloudy(description))
        => LET m == Matching(description) IN
           /\ icon # IconCloud
           /\ icon = IF 1 \in m THEN IconSun
                     ELSE IF 2 \in m THEN IconMoon
                     ELSE IconPartlyCloudy

\* "PARTLY CLOUDY" followed by a rain keyword was classified partly cloudy.
C2_Witness ==
    /\ icon = IconPartlyCloudy
    /\ description # to_lowercase(description)
    /\ {3, 4, 8} \subseteq Matching(description)

\* C3: get_icon returns the symbol of the first rule, in the fixed order,
\* whose keyword is a substring of the lower-cased description, and the
\* fallback symbol exactly when no keyword is a substring.
C3_FirstMatchingRule ==
    icon # NoIcon
        => LET low == to_lowercase(description) IN
           /\ \A i \in 1..Len(Rules) :
                FirstMatchIs(low, i) => icon = Rules[i][2]
           /\ (icon = IconThermometer) <=> NoRuleMatches(low)

\* A description in mixed case that two rules with different symbols match
\* was given the earlier rule's symbol.
C3_Witness ==
    /\ icon = IconRain
    /\ description # to_lowercase(description)
    /\ {8, 10} \subseteq Matching(description)

\* ================================================== claims about the process
\* The lines of the given kind in an output stream.
Lines(out, kind) == {i \in 1..Len(out) : out[i].line = kind}

CurrentReportPrinted == Lines(stdout, "right_now") # {}
ForecastReportPrinted == Lines(stdout, "forecast_title") # {}
AttributionPrinted == Lines(stdout, "attribution") # {}
FetchOk == result.some /\ result.value.ok

IsForecastRow(l) == l.line = "forecast_row"
ForecastRows == SelectSeq(stdout, IsForecastRow)

\* The location the invocation asked for: argument 1, or "London".
RequestedLocation == IF Len(args) >= 2 THEN args[2] ELSE "London"

\* C1: in every printed forecast row the rain field shows "N/A" when the
\* day's first hourly entry has no chanceofrain, and the value followed by
\* "%" when it has one.
C1_RainFieldNAWithoutPercent ==
    \A i \in 1..Len(ForecastRows) :
        LET cor == result.value.data.weather[i].hourly[1].chanceofrain IN
        ForecastRows[i].rain =
            PadLeft(IF cor.some THEN cor.value \o "%" ELSE "N/A", 7)

\* C4: with the placeholder key (also when WWO_API_KEY is unset) the run
\* ends at fetch_weather's key check with exit code 1; no request is sent
\* and neither report is printed.
C4_PlaceholderKeyExitsBeforeRequest ==
    /\ (pc # "main" /\ env_key = None) => api_key = "your_api_key_here"
    /\ (pc # "main" /\ api_key = "your_api_key_here")
        => /\ requests = <<>>
           /\ response = None
           /\ result = None
           /\ ~CurrentReportPrinted
           /\ ~ForecastReportPrinted
           /\ pc # "fetch_weather" => (pc = "exited" /\ exit_code = Some(1))

\* WWO_API_KEY was unset and the run has ended with the key guidance.
C4_Witness ==
    /\ env_key = None
    /\ pc = "exited"
    /\ exit_code = Some(1)
    /\ Lines(stderr, "set_your_key") # {}

NonSuccessResponse ==
    response.some /\ response.value.status \notin 200..299

\* C5: a response with a status outside 200..299 ends the run inside
\* fetch_weather with exit code 1: the body is never deserialized, nothing is
\* returned to main, main's error branch prints nothing, and neither report
\* nor the attribution line is printed.
C5_HttpErrorExitsInsideClient ==
    NonSuccessResponse
        => /\ ~deserialized
           /\ result = None
           /\ Lines(stderr, "error") = {}
           /\ ~CurrentReportPrinted
           /\ ~ForecastReportPrinted
           /\ ~AttributionPrinted
           /\ pc \in {"status", "exited"}
           /\ pc = "exited"
                => /\ exit_code = Some(1)
                   /\ stderr = <<[line |-> "http_error",
                                  status |-> response.value.status]>>

\* A 404 whose body is a complete weather document ended the run.
C5_Witness ==
    /\ response.some
    /\ response.value.status = 404
    /\ response.value.body.is_json
    /\ "data" \in DOMAIN response.value.body.doc
    /\ "weather" \in DOMAIN response.value.body.doc.data
    /\ pc = "exited"
    /\ exit_code = Some(1)

\* The bodies serde accepts as a WeatherResponse.
BodyDeserializes(body) ==
    /\ body.is_json
    /\ "data" \in DOMAIN body.doc
    /\ "current_condition" \in DOMAIN body.doc.data
    /\ "weather" \in DOMAIN body.doc.data

FetchFailed ==
    /\ result.some
    /\ ~result.value.ok
    /\ result.value.err \in TransportErrors \cup {"decode"}

C6_ErrorHandledInMain ==
    FetchFailed
        => /\ pc \in {"match", "exited"}
           /\ pc = "match" => (exit_code = None /\ stderr = <<>>)
           /\ pc = "exited"
                => /\ exit_code = Some(1)
                   /\ stderr = <<[line |-> "error", err |-> result.value.err]>>
                   /\ panic_site = "none"
           /\ (result.value.err = "decode") <=> deserialized
           /\ Len(requests) = 1
           /\ ~CurrentReportPrinted
           /\ ~ForecastReportPrinted
           /\ ~AttributionPrinted

C6_DecodeFailureReturns ==
    (pc = "json" /\ ~BodyDeserializes(response.value.body))
        => /\ result' = Some(Err("decode"))
           /\ pc' = "match"
           /\ exit_code' = None

\* C6: a transport failure or a body that fails to deserialize does not end
\* the process inside fetch_weather: the error is returned to main, and main
\* prints it and exits with code 1 without printing either report or the
\* attribution line.
C6_FetchErrorsReturnToMain ==
    /\ []C6_ErrorHandledInMain
    /\ [][C6_DecodeFailureReturns]_vars

\* The API's error document came with status 200 and main ended the run.
C6_Witness ==
    /\ result = Some(Err("decode"))
    /\ deserialized
    /\ pc = "exited"
    /\ exit_code = Some(1)

\* location_name has been derived and display_current is called with it:
\* the call's first argument, data.current_condition[0], exists.
LabelDerived ==
    /\ FetchOk
    /\ result.value.data.current_condition # <<>>
    /\ \/ pc \in {"display_current", "display_forecast", "attribution"}
       \/ pc = "exited" /\ panic_site \notin {"area_name", "country"}

LabelIs(name) ==
    /\ location_name = name
    /\ \A i \in Lines(stdout, "right_now") : stdout[i].location_name = name

\* C7, as stated: the label is "<areaName>, <country>" of the first
\* nearest_area entry whenever nearest_area is present, and the requested
\* location whenever it is absent.
C7_LabelWheneverPresent ==
    LabelDerived
        => LET na == result.value.data.nearest_area IN
           IF na.some
           THEN /\ na.value # <<>>
                /\ LabelIs(na.value[1].area_name[1].value \o ", "
                           \o na.value[1].country[1].value)
           ELSE LabelIs(RequestedLocation)

\* C7, amended: the label is "<areaName>, <country>" of the first
\* nearest_area entry whenever nearest_area is present and not empty, and the
\* requested location whenever nearest_area is absent or an empty array.
C7_LabelFromFirstAreaOrQuery ==
    LabelDerived
        => LET na == result.value.data.nearest_area IN
           IF na.some /\ na.value # <<>>
           THEN LabelIs(na.value[1].area_name[1].value \o ", "
                        \o na.value[1].country[1].value)
           ELSE LabelIs(RequestedLocation)

\* "Paris, France" was printed for a run that asked for the default London.
C7_Witness ==
    /\ RequestedLocation = "London"
    /\ \E i \in Lines(stdout, "right_now") :
            stdout[i].location_name = "Paris, France"

\* C8: the day count of the resolved query, and the num_of_days of every
\* request sent, is between 1 and 14.
C8_DaysBetween1And14 ==
    /\ pc # "main" => days \in 1..14
    /\ \A i \in 1..Len(requests) :
            parse_u8(requests[i].num_of_days) \in {Some(n) : n \in 1..14}

\* C9: no run sends a second request, and along each of the four paths
\* (success, transport error, non-success status, deserialization error) the
\* run has sent exactly one; only a run stopped by the placeholder key or by
\* a client that could not be built ends without one.
C9_ExactlyOneRequest ==
    /\ Len(requests) <= 1
    /\ (response.some \/ FetchOk \/ FetchFailed) => Len(requests) = 1
    /\ pc \in {"status", "json", "display_current", "display_forecast",
               "attribution"} => Len(requests) = 1
    /\ (pc = "exited" /\ Len(requests) = 0)
        => \/ api_key = "your_api_key_here"
           \/ result = Some(Err("builder"))

\* A run ended on a transport error having sent its one request.
C9_Witness ==
    /\ pc = "exited"
    /\ result.some
    /\ ~result.value.ok
    /\ result.value.err \in TransportErrors
    /\ Len(requests) = 1

\* A sequence the program reads at index 0 is empty.
ReadsEmptySequence(d) ==
    \/ d.current_condition = <<>>
    \/ d.current_condition # <<>> /\ d.current_condition[1].weather_desc = <<>>
    \/ \E i \in 1..Len(d.weather) : d.weather[i].hourly = <<>>
    \/ \E i \in 1..Len(d.weather) :
            /\ d.weather[i].hourly # <<>>
            /\ d.weather[i].hourly[1].weather_desc = <<>>
    \/ /\ d.nearest_area.some
       /\ d.nearest_area.value # <<>>
       /\ \/ d.nearest_area.value[1].area_name = <<>>
          \/ d.nearest_area.value[1].country = <<>>

\* C10: a run whose body deserialized but holds an empty sequence that the
\* program reads at index 0 ends neither through main's error branch with
\* code 1 nor with code 0 but in an out-of-bounds panic; a panic on hourly or
\* on the hourly entry's weatherDesc comes after the current-conditions
\* report was printed.
C10_EmptySequencePanics ==
    /\ (FetchOk /\ ReadsEmptySequence(result.value.data))
        => /\ pc # "attribution"
           /\ pc = "exited"
                => /\ panic_site # "none"
                   /\ exit_code \notin {Some(0), Some(1)}
                   /\ Lines(stderr, "error") = {}
                   /\ Lines(stderr, "panic") # {}
                   /\ ~AttributionPrinted
    /\ panic_site \in {"hourly", "hourly_desc"}
        => /\ CurrentReportPrinted
           /\ ForecastReportPrinted
    /\ panic_site # "none" => (FetchOk /\ ReadsEmptySequence(result.value.data))

\* The second forecast day has an empty hourly array: the run panicked there
\* after the current report and the first day's row.
C10_Witness ==
    /\ panic_site = "hourly"
    /\ pc = "exited"
    /\ CurrentReportPrinted
    /\ Len(ForecastRows) = 1

====
